---- MODULE Spec2Model ----
(***************************************************************************)
(* Verification model of peem16/ticketing-system:                          *)
(*   - api-gateway: CircuitBreaker and the GraphQL resolvers that use it   *)
(*   - auth-service: CachedTokenService, RegisterUserUseCase,              *)
(*     LoginUserUseCase                                                    *)
(* One module, several specifications.  Each specification drives one      *)
(* component; the variables of the other components stay parked.           *)
(*   SpecBreaker : one caller invoking the breaker's methods               *)
(*   SpecGateway : concurrent resolvers sharing one breaker                *)
(*   SpecCache   : concurrent validate_token calls on one cache            *)
(*   SpecAuth    : concurrent Register and Login use cases on one table    *)
(*   SpecAtomics : concurrent callers of the breaker, one atomic operation *)
(*                 of Inner per step                                       *)
(***************************************************************************)
EXTENDS Integers, Sequences, FiniteSets, TLC

VARIABLES
    inner,      \* circuit_breaker.rs Inner: the breaker's shared state
    now,        \* the clock (milliseconds for the breaker)
    last_call,  \* SpecBreaker: the last method called, its result, its pre-state
    streak,     \* SpecBreaker: record_failure() calls since new()/record_success()
    fail_at,    \* SpecBreaker: clock value at the latest record_failure() call
    req,        \* SpecGateway: the resolvers waiting on a downstream call
    response,   \* SpecGateway: the latest resolver result returned
    cache,      \* SpecCache: CachedTokenService's moka cache and its settings
    vt,         \* SpecCache: per-thread position inside validate_token
    vresult,    \* SpecCache: the latest validate_token result returned
    validated,  \* SpecCache: per token, the latest Ok obtained from the
                \*   wrapped service (time and claims), or None
    evicted,    \* SpecCache: per token, capacity eviction since `validated`
    users,      \* SpecAuth: the rows of the users table
    auth,       \* SpecAuth: per thread, its position inside Register
    returned,   \* SpecAuth: the latest use case that returned: its command,
                \*   what its collaborators were asked and its result
    calls,      \* SpecAtomics: per caller, the breaker method it is inside, its
                \*   position and locals; once it returned, what it returned
    hist        \* SpecAtomics: how many record_success() and record_failure()
                \*   calls have been started

brk_vars == <<last_call, streak, fail_at>>
gw_vars == <<req, response>>
cache_vars == <<cache, vt, vresult, validated, evicted>>
auth_vars == <<users, auth, returned>>
atomics_vars == <<calls, hist>>
vars == <<inner, now, brk_vars, gw_vars, cache_vars, auth_vars, atomics_vars>>

(***************************************************************************)
(* Bounds of the model                                                     *)
(***************************************************************************)
MaxThreshold == 2     \* thresholds 0..MaxThreshold are constructed
MaxRecovery == 1      \* recovery timeouts 0..MaxRecovery (ms), shared breaker
MaxWindow == 2        \* recovery timeouts 0..MaxWindow (ms), single caller
MaxTime == 2          \* clock values 0..MaxTime
MaxFailures == 3      \* record_failure() is not called once the count is here
MaxTtl == 2           \* cache TTLs 0..MaxTtl
MaxCapacity == 1      \* cache capacities 0..MaxCapacity
MaxCalls == 3         \* record_success()/record_failure() calls started

Times == 0..MaxTime

\* the gateway's concurrent requests
Requests == {"r1", "r2"}

\* the auth-service's threads inside validate_token
Threads == {"t1", "t2"}

\* the tasks calling the breaker's methods at the same time
Callers == {"k1", "k2"}

(***************************************************************************)
(* circuit_breaker.rs                                                      *)
(***************************************************************************)

\* CircuitBreaker::new
new(threshold, recovery_timeout) ==
    [ failure_count    |-> 0,
      is_open          |-> FALSE,
      last_failure_ms  |-> 0,
      threshold        |-> threshold,
      recovery_timeout |-> recovery_timeout ]

\* u64::wrapping_sub; 2^64 is beyond TLC's integers, so the wrapped
\* difference is taken modulo 2^31 - 1, which like 2^64 exceeds every window
wrapping_sub(a, b) == IF a >= b THEN a - b ELSE a - b + 2147483647

\* u64::saturating_sub
saturating_sub(a, b) == IF a >= b THEN a - b ELSE 0

recovery_elapsed_strictly(b, now_ms) ==
    saturating_sub(now_ms, b.last_failure_ms) > b.recovery_timeout

\* is_available, second half: the circuit was seen open; now_ms is the
\* clock read at line 54, b.last_failure_ms the load at line 58
recovery_elapsed(b, now_ms) ==
    saturating_sub(now_ms, b.last_failure_ms) >= b.recovery_timeout

is_available_only_when_closed(b, now_ms) == ~b.is_open

\* CircuitBreaker::is_available, run without interruption at clock now_ms
is_available(b, now_ms) ==
    IF ~b.is_open THEN TRUE ELSE recovery_elapsed(b, now_ms)

\* record_success, first store (line 66)
rs_store_count(b) == [b EXCEPT !.failure_count = 0]

is_available_closes_on_recovery(b, now_ms) ==
    IF b.is_open /\ recovery_elapsed(b, now_ms)
    THEN [b EXCEPT !.is_open = FALSE] ELSE b

\* Inner after is_available at clock now_ms: lines 49-61 load is_open and
\* last_failure_ms and store nothing
is_available_stores(b, now_ms) == b

\* record_success, second store (line 67)
rs_store_open(b) == [b EXCEPT !.is_open = FALSE]

record_success_keeps_open(b) == rs_store_count(b)

\* CircuitBreaker::record_success, run without interruption
record_success(b) == rs_store_open(rs_store_count(b))

\* record_failure, fetch_add (line 72): the new state; `count` is its
\* failure_count.  The AtomicU32 wraps at 2^32, which no run bounded by
\* MaxFailures reaches.
rf_fetch_add(b) == [b EXCEPT !.failure_count = @ + 1]

rf_count_one_more(prev) == prev.failure_count + 2

\* record_failure, line 72: the value of `fetch_add(1) + 1`, prev being
\* Inner before the fetch_add
rf_count(prev) == prev.failure_count + 1

rf_trips_off_by_one(b, count) == count > b.threshold

\* record_failure, the test of line 73
rf_trips(b, count) == count >= b.threshold

\* record_failure, store of line 74
rf_store_open(b) == [b EXCEPT !.is_open = TRUE]

\* record_failure, store of line 79
rf_store_last(b, now_ms) == [b EXCEPT !.last_failure_ms = now_ms]

record_failure_stamps_first_trip_only(b, now_ms) ==
    LET b1 == rf_fetch_add(b)
    IN  IF b.is_open THEN b1
        ELSE IF rf_trips(b1, b1.failure_count)
        THEN rf_store_last(rf_store_open(b1), now_ms)
        ELSE b1

\* CircuitBreaker::record_failure, run without interruption at clock now_ms
record_failure(b, now_ms) ==
    LET b1 == rf_fetch_add(b)
        count == b1.failure_count
    IN  IF rf_trips(b1, count)
        THEN rf_store_last(rf_store_open(b1), now_ms)
        ELSE b1

(***************************************************************************)
(* jwt_token_service.rs and token_cache.rs                                 *)
(***************************************************************************)
None == [none |-> TRUE]

\* Token strings handed to validate_token.  A token is what decode() sees
\* in it: whether the signature verifies, the exp claim, sub and whether it
\* parses as a UUID, email.
Tokens ==
    { [raw |-> "early", signed |-> TRUE, exp |-> 0, sub |-> "u1",
       sub_is_uuid |-> TRUE, email |-> "a@x.io"],
      [raw |-> "late", signed |-> TRUE, exp |-> MaxTime, sub |-> "u2",
       sub_is_uuid |-> TRUE, email |-> "b@x.io"],
      [raw |-> "forged", signed |-> FALSE, exp |-> MaxTime, sub |-> "u1",
       sub_is_uuid |-> TRUE, email |-> "a@x.io"] }

\* Result<TokenData, AuthError>
Ok(data) == [ok |-> TRUE, data |-> data, err |-> "none"]
Err(e) == [ok |-> FALSE, data |-> None, err |-> e]

\* JwtTokenService::validate_token at clock now_s: decode() checks the
\* signature, then exp (test_expired_token: a token whose exp is one second
\* in the past is rejected), then sub is parsed
jwt_validate_token(token, now_s) ==
    IF ~token.signed THEN Err("InvalidToken")
    ELSE IF token.exp < now_s THEN Err("TokenExpired")
    ELSE IF ~token.sub_is_uuid THEN Err("InvalidToken")
    ELSE Ok([user_id |-> token.sub, email |-> token.email])

\* CachedTokenService::new: an empty moka cache with max_capacity and
\* time_to_live
new_cache(ttl_secs, max_capacity) ==
    [ ttl_secs     |-> ttl_secs,
      max_capacity |-> max_capacity,
      entries      |-> [t \in Tokens |-> None] ]

cache_never_expires(c, e, now_s) == FALSE

\* time_to_live(ttl_secs): an entry has expired once ttl_secs have passed
\* since it was inserted
cache_expired(c, e, now_s) == e.at + c.ttl_secs <= now_s

cache_get_ignores_ttl(c, token, now_s) == c.entries[token]

\* self.cache.get(token): None stands for a miss
cache_get(c, token, now_s) ==
    LET e == c.entries[token]
    IN  IF e # None /\ ~cache_expired(c, e, now_s) THEN e ELSE None

\* self.cache.insert(token, data)
cache_insert(c, token, data, now_s) ==
    [c EXCEPT !.entries[token] = [data |-> data, at |-> now_s]]

\* the entries moka holds, expired or not
cache_size(c) == Cardinality({t \in Tokens : c.entries[t] # None})

caches_any_result(r) == TRUE

\* validate_token, line 57: `?` returns the error, Ok goes on to insert
goes_on_to_insert(r) == r.ok

skips_insert(c, token, data, now_s) == c

\* validate_token, line 58
vt_insert(c, token, data, now_s) == cache_insert(c, token, data, now_s)

(***************************************************************************)
(* auth-service: domain/user.rs, db/user_repository_diesel.rs,             *)
(* security/argon2_password_hasher.rs, security/jwt_token_service.rs       *)
(***************************************************************************)
\* A string is the sequence of its characters; a character outside ASCII
\* is written by its code point.

\* char::is_whitespace, on the characters used here
is_whitespace(c) == c = " "

\* char::to_lowercase, on the characters used here
to_lowercase_char(c) ==
    CASE c = "A" -> "a"
      [] c = "B" -> "b"
      [] OTHER -> c

\* the bytes of a character in UTF-8
len_utf8(c) == IF c = "U+00E9" THEN 2 ELSE 1

RECURSIVE trim_start(_)
trim_start(s) ==
    IF s # <<>> /\ is_whitespace(Head(s)) THEN trim_start(Tail(s)) ELSE s

RECURSIVE trim_end(_)
trim_end(s) ==
    IF s # <<>> /\ is_whitespace(s[Len(s)])
    THEN trim_end(SubSeq(s, 1, Len(s) - 1))
    ELSE s

\* str::trim
trim(s) == trim_end(trim_start(s))

\* str::to_lowercase
RECURSIVE to_lowercase(_)
to_lowercase(s) ==
    IF s = <<>> THEN <<>>
    ELSE <<to_lowercase_char(Head(s))>> \o to_lowercase(Tail(s))

\* str::contains(char)
contains(s, c) == \E i \in 1..Len(s) : s[i] = c

\* str::split(char).collect(): the pieces between the occurrences of c
RECURSIVE split(_, _)
split(s, c) ==
    IF ~contains(s, c) THEN <<s>>
    ELSE LET i == CHOOSE k \in 1..Len(s) :
                      s[k] = c /\ \A j \in 1..(k - 1) : s[j] # c
         IN  <<SubSeq(s, 1, i - 1)>> \o split(SubSeq(s, i + 1, Len(s)), c)

\* str::len: the length in bytes
RECURSIVE len(_)
len(s) == IF s = <<>> THEN 0 ELSE len_utf8(Head(s)) + len(Tail(s))

Email_new_keeps_case(value) ==
    LET trimmed == trim(value)
        parts == split(trimmed, "@")
    IN  IF trimmed = <<>> THEN Err("InvalidEmail")
        ELSE IF ~contains(trimmed, "@") THEN Err("InvalidEmail")
        ELSE IF Len(parts) # 2 \/ parts[1] = <<>> \/ parts[2] = <<>>
             THEN Err("InvalidEmail")
        ELSE IF ~contains(parts[2], ".") THEN Err("InvalidEmail")
        ELSE Ok(trimmed)

\* Email::new
Email_new(value) ==
    LET trimmed == to_lowercase(trim(value))
        parts == split(trimmed, "@")
    IN  IF trimmed = <<>> THEN Err("InvalidEmail")
        ELSE IF ~contains(trimmed, "@") THEN Err("InvalidEmail")
        ELSE IF Len(parts) # 2 \/ parts[1] = <<>> \/ parts[2] = <<>>
             THEN Err("InvalidEmail")
        ELSE IF ~contains(parts[2], ".") THEN Err("InvalidEmail")
        ELSE Ok(trimmed)

\* the email strings of the commands
RawEmails ==
    { <<"a", "@", "b", ".", "c">>,
      <<" ", "A", "@", "B", ".", "c", " ">>,
      <<"p", "@", "b", ".", "c">>,
      <<" ">>,
      <<"a", "b", ".", "c">>,
      <<"@", "b", ".", "c">>,
      <<"a", "@", "b", "@", "b", ".", "c">>,
      <<"a", "@", "b">> }

\* the password strings of the commands: 8 bytes, 7 bytes, and 4 characters
\* of 2 bytes each
Passwords ==
    { <<"p", "a", "s", "s", "w", "o", "r", "d">>,
      <<"p", "a", "s", "s", "w", "o", "r">>,
      <<"U+00E9", "U+00E9", "U+00E9", "U+00E9">> }

\* AuthError::Internal(_), whatever its message
is_internal(e) ==
    e \in {"Internal(db)", "Internal(hash)", "Internal(verify)",
           "Internal(token)"}

\* HashedPassword: a PHC string (of the password it was computed from; the
\* salt is not modelled, verify does not depend on it) or a string that
\* PasswordHash::new cannot parse
phc(password) == [fmt |-> "phc", of |-> password]
Unparsable == [fmt |-> "unparsable", of |-> <<>>]

\* Argon2PasswordHasher::hash; hash_ok is whether hash_password succeeds
hash(plain_password, hash_ok) ==
    IF ~hash_ok THEN Err("Internal(hash)") ELSE Ok(phc(plain_password))

verify_accepts_any_password(plain_password, hashed) ==
    IF hashed.fmt # "phc" THEN Err("Internal(verify)") ELSE Ok(TRUE)

\* Argon2PasswordHasher::verify
verify(plain_password, hashed) ==
    IF hashed.fmt # "phc" THEN Err("Internal(verify)")
    ELSE Ok(hashed.of = plain_password)

\* User::new; the id is drawn by the caller (UserId::new is a fresh UUID)
User_new(id, email, hashed_password) ==
    [ id |-> id, email |-> email, hashed_password |-> hashed_password,
      is_active |-> TRUE ]

\* UserId::new: an id no row has
UserId_new(rows) ==
    CHOOSE i \in 1..(Cardinality(rows) + 1) : \A u \in rows : u.id # i

\* DieselUserRepository::find_by_email; db_ok is whether the pool hands out
\* a connection and the query runs
find_by_email(rows, email, db_ok) ==
    LET normalized_email == to_lowercase(trim(email))
        hits == {u \in rows : u.email = normalized_email}
    IN  IF ~db_ok THEN Err("Internal(db)")
        ELSE IF hits = {} THEN Err("UserNotFound")
        ELSE Ok(CHOOSE u \in hits : TRUE)

\* DieselUserRepository::exists_by_email
exists_by_email(rows, email, db_ok) ==
    LET normalized_email == to_lowercase(trim(email))
    IN  IF ~db_ok THEN Err("Internal(db)")
        ELSE Ok(\E u \in rows : u.email = normalized_email)

\* The users table's unique index on email: does inserting `user` violate
\* it?  The table's definition is not among the sources; the repository's
\* contract (create answers AlreadyExists) and the UniqueViolation arm of
\* create stand for it.
unique_violation(rows, user) == \E u \in rows : u.email = user.email

create_unique_violation_is_internal(rows, user, db_ok, reread_ok) ==
    IF ~db_ok \/ unique_violation(rows, user)
    THEN [rows |-> rows, result |-> Err("Internal(db)")]
    ELSE [ rows |-> rows \cup {user},
           result |-> IF reread_ok THEN Ok(user) ELSE Err("Internal(db)") ]

\* DieselUserRepository::create: the insert (rejected by the unique index
\* on email that the UniqueViolation arm expects), then find_by_id on a
\* second connection (reread_ok).  Gives the rows and the result.
create(rows, user, db_ok, reread_ok) ==
    IF ~db_ok THEN [rows |-> rows, result |-> Err("Internal(db)")]
    ELSE IF unique_violation(rows, user)
         THEN [rows |-> rows, result |-> Err("UserAlreadyExists")]
    ELSE [ rows |-> rows \cup {user},
           result |-> IF reread_ok THEN Ok(user) ELSE Err("Internal(db)") ]

\* Config::from_env: AUTH_JWT_EXP_SECS when the environment does not set it
jwt_expiration_secs == 3600

\* JwtTokenService::create_token at clock now_s; encode_ok is whether
\* encode succeeds
create_token(user, now_s, encode_ok) ==
    IF ~encode_ok THEN Err("Internal(token)")
    ELSE Ok([ sub |-> user.id, email |-> user.email, iat |-> now_s,
              exp |-> now_s + jwt_expiration_secs ])

(***************************************************************************)
(* auth-service: application/commands/register_user.rs, login_user.rs      *)
(***************************************************************************)
\* register_user.rs, line 59
MinPasswordLen == 8

\* A thread outside any use case.  The fields of a call are its command,
\* what the repository answered (found), the entity about to be persisted
\* (user), which collaborators were invoked, and the value returned.
AuthIdle ==
    [ pc |-> "idle", op |-> "none", email |-> <<>>, password |-> <<>>,
      found |-> None, user |-> None, hash_called |-> FALSE,
      create_called |-> FALSE, verify_called |-> FALSE,
      token_called |-> FALSE, result |-> None ]

register_checks_password_first(rows, email, password, db_ok, hash_ok) ==
    LET call == [AuthIdle EXCEPT !.op = "register", !.email = email,
                                 !.password = password, !.pc = "done"]
        e == Email_new(email)
        found == exists_by_email(rows, e.data, db_ok)
        hashed == hash(password, hash_ok)
    IN  IF ~e.ok THEN [call EXCEPT !.result = e]
        ELSE IF len(password) < MinPasswordLen
             THEN [call EXCEPT !.result = Err("WeakPassword")]
        ELSE IF ~found.ok
             THEN [call EXCEPT !.found = found, !.result = found]
        ELSE IF found.data
             THEN [call EXCEPT !.found = found,
                               !.result = Err("UserAlreadyExists")]
        ELSE IF ~hashed.ok
             THEN [call EXCEPT !.found = found, !.hash_called = TRUE,
                               !.result = hashed]
        ELSE [call EXCEPT !.pc = "hashed", !.found = found,
                          !.hash_called = TRUE,
                          !.user = [ email |-> e.data,
                                     hashed_password |-> hashed.data ]]

\* RegisterUserUseCase::execute, lines 51-64: Email::new, the
\* exists_by_email query, the length check and the hashing.  The query is
\* the only step other threads can affect; the steps after it are local,
\* so they are taken with it.
register_checks(rows, email, password, db_ok, hash_ok) ==
    LET call == [AuthIdle EXCEPT !.op = "register", !.email = email,
                                 !.password = password, !.pc = "done"]
        e == Email_new(email)
        found == exists_by_email(rows, e.data, db_ok)
        hashed == hash(password, hash_ok)
    IN  IF ~e.ok THEN [call EXCEPT !.result = e]
        ELSE IF ~found.ok
             THEN [call EXCEPT !.found = found, !.result = found]
        ELSE IF found.data
             THEN [call EXCEPT !.found = found,
                               !.result = Err("UserAlreadyExists")]
        ELSE IF len(password) < MinPasswordLen
             THEN [call EXCEPT !.found = found,
                               !.result = Err("WeakPassword")]
        ELSE IF ~hashed.ok
             THEN [call EXCEPT !.found = found, !.hash_called = TRUE,
                               !.result = hashed]
        ELSE [call EXCEPT !.pc = "hashed", !.found = found,
                          !.hash_called = TRUE,
                          !.user = [ email |-> e.data,
                                     hashed_password |-> hashed.data ]]

\* RegisterUserUseCase::execute, lines 67-76: User::new, create and the
\* result.  Gives the rows and the thread's record.
register_create(rows, call, db_ok, reread_ok) ==
    LET user == User_new(UserId_new(rows), call.user.email,
                         call.user.hashed_password)
        created == create(rows, user, db_ok, reread_ok)
    IN  [ rows |-> created.rows,
          call |-> [call EXCEPT
                      !.pc = "done", !.create_called = TRUE,
                      !.result =
                          IF created.result.ok
                          THEN Ok([ user_id |-> created.result.data.id,
                                    email |-> created.result.data.email ])
                          ELSE created.result] ]

login_leaks_not_found(e) == e

\* LoginUserUseCase::execute, the map_err of lines 55-58
login_map_err(e) == IF e = "UserNotFound" THEN "InvalidCredentials" ELSE e

login_verifies_before_active(call, user, now_s, encode_ok) ==
    LET is_valid == verify(call.password, user.hashed_password)
        token == create_token(user, now_s, encode_ok)
    IN  IF ~is_valid.ok
        THEN [call EXCEPT !.verify_called = TRUE, !.result = is_valid]
        ELSE IF ~is_valid.data
             THEN [call EXCEPT !.verify_called = TRUE,
                               !.result = Err("InvalidCredentials")]
        ELSE IF ~user.is_active
             THEN [call EXCEPT !.verify_called = TRUE,
                               !.result = Err("AccountInactive")]
        ELSE IF ~token.ok
             THEN [call EXCEPT !.verify_called = TRUE,
                               !.token_called = TRUE, !.result = token]
        ELSE [call EXCEPT !.verify_called = TRUE, !.token_called = TRUE,
                          !.result = Ok([ token |-> token.data,
                                          user_id |-> user.id,
                                          email |-> user.email ])]

\* LoginUserUseCase::execute, lines 60-82: the checks on the user found
login_after_find(call, user, now_s, encode_ok) ==
    LET is_valid == verify(call.password, user.hashed_password)
        token == create_token(user, now_s, encode_ok)
    IN  IF ~user.is_active
        THEN [call EXCEPT !.result = Err("AccountInactive")]
        ELSE IF ~is_valid.ok
             THEN [call EXCEPT !.verify_called = TRUE, !.result = is_valid]
        ELSE IF ~is_valid.data
             THEN [call EXCEPT !.verify_called = TRUE,
                               !.result = Err("InvalidCredentials")]
        ELSE IF ~token.ok
             THEN [call EXCEPT !.verify_called = TRUE,
                               !.token_called = TRUE, !.result = token]
        ELSE [call EXCEPT !.verify_called = TRUE, !.token_called = TRUE,
                          !.result = Ok([ token |-> token.data,
                                          user_id |-> user.id,
                                          email |-> user.email ])]

\* LoginUserUseCase::execute
login_execute(rows, email, password, now_s, db_ok, encode_ok) ==
    LET call == [AuthIdle EXCEPT !.op = "login", !.email = email,
                                 !.password = password, !.pc = "done"]
        found == find_by_email(rows, email, db_ok)
    IN  IF ~found.ok
        THEN [call EXCEPT !.found = found,
                          !.result = Err(login_map_err(found.err))]
        ELSE login_after_find([call EXCEPT !.found = found], found.data,
                              now_s, encode_ok)

(***************************************************************************)
(* auth-service: interface/grpc/service.rs                                 *)
(***************************************************************************)
\* the AuthError variants that carry no message
DomainErrors ==
    { "UserAlreadyExists", "UserNotFound", "InvalidCredentials",
      "InvalidToken", "TokenExpired", "InvalidEmail", "WeakPassword",
      "AccountInactive" }

map_auth_error_credentials_internal(err) ==
    CASE err = "UserAlreadyExists"  -> "AlreadyExists"
      [] err = "UserNotFound"       -> "NotFound"
      [] err = "InvalidCredentials" -> "Internal"
      [] err = "InvalidToken"       -> "Unauthenticated"
      [] err = "TokenExpired"       -> "Unauthenticated"
      [] err = "InvalidEmail"       -> "InvalidArgument"
      [] err = "WeakPassword"       -> "InvalidArgument"
      [] err = "AccountInactive"    -> "PermissionDenied"
      [] is_internal(err)           -> "Internal"

\* map_auth_error: the tonic::Code of the Status an AuthError becomes
map_auth_error(err) ==
    CASE err = "UserAlreadyExists"  -> "AlreadyExists"
      [] err = "UserNotFound"       -> "NotFound"
      [] err = "InvalidCredentials" -> "Unauthenticated"
      [] err = "InvalidToken"       -> "Unauthenticated"
      [] err = "TokenExpired"       -> "Unauthenticated"
      [] err = "InvalidEmail"       -> "InvalidArgument"
      [] err = "WeakPassword"       -> "InvalidArgument"
      [] err = "AccountInactive"    -> "PermissionDenied"
      [] is_internal(err)           -> "Internal"

\* `.map_err(map_auth_error)?` and the Ok(Response) after it: "Ok" or the
\* status code the handler answers with
grpc_status(result) == IF result.ok THEN "Ok" ELSE map_auth_error(result.err)

\* Uuid::parse_str of a sub claim that parses
Uuid_parse_str(sub) == IF sub = "u1" THEN 1 ELSE 2

\* DieselUserRepository::find_by_id
find_by_id(rows, id, db_ok) ==
    LET hits == {u \in rows : u.id = id}
    IN  IF ~db_ok THEN Err("Internal(db)")
        ELSE IF hits = {} THEN Err("UserNotFound")
        ELSE Ok(CHOOSE u \in hits : TRUE)

\* AuthServiceGrpc::register: the use case run to its end
grpc_register(rows, email, password, db_ok, hash_ok, create_ok, reread_ok) ==
    LET checks == register_checks(rows, email, password, db_ok, hash_ok)
    IN  IF checks.pc = "done"
        THEN [rows |-> rows, call |-> checks]
        ELSE register_create(rows, checks, create_ok, reread_ok)

\* AuthServiceGrpc::login
grpc_login(rows, email, password, now_s, db_ok, encode_ok) ==
    login_execute(rows, email, password, now_s, db_ok, encode_ok)

\* AuthServiceGrpc::get_me: validate_token, then find_by_id
grpc_get_me(rows, token, now_s, db_ok) ==
    LET token_data == jwt_validate_token(token, now_s)
        call == [AuthIdle EXCEPT !.op = "get_me", !.pc = "done"]
    IN  IF ~token_data.ok
        THEN [call EXCEPT !.result = Err(token_data.err)]
        ELSE [call EXCEPT !.result =
                find_by_id(rows, Uuid_parse_str(token_data.data.user_id),
                           db_ok)]

(***************************************************************************)
(* Parked values of the variables a specification does not use             *)
(***************************************************************************)
NoCall == [op |-> "none", ret |-> TRUE, at |-> 0, pre |-> new(0, 0)]
IdleReq == [pc |-> "idle", op |-> "none", avail |-> TRUE]
NoResponse ==
    [ op |-> "none", checked |-> FALSE, avail |-> TRUE,
      started |-> FALSE, outcome |-> "none", n_success |-> 0,
      n_failure |-> 0, err |-> "none" ]

ParkBreakerUnit == last_call = NoCall /\ streak = 0 /\ fail_at = 0
ParkGateway == req = [p \in Requests |-> IdleReq] /\ response = NoResponse

IdleThread == [pc |-> "idle"]
NoResult ==
    [ token |-> None, result |-> None, hit |-> FALSE, invoked |-> FALSE,
      expect_hit |-> FALSE, stale |-> FALSE, again |-> FALSE ]
ParkCache ==
    /\ cache = new_cache(0, 0)
    /\ vt = [p \in Threads |-> IdleThread]
    /\ vresult = NoResult
    /\ validated = [t \in Tokens |-> None]
    /\ evicted = [t \in Tokens |-> FALSE]
ParkAuth ==
    /\ users = {}
    /\ auth = [t \in Threads |-> AuthIdle]
    /\ returned = AuthIdle

\* a caller outside the breaker's methods; op and ret are those of the
\* call it returned from
IdleCall ==
    [pc |-> "idle", op |-> "none", count |-> 0, now_ms |-> 0, ret |-> TRUE]
\* the calls started so far, and whether failure_count >= threshold has
\* held at some instant so far
NoHist == [rs |-> 0, rf |-> 0, reached |-> FALSE]
ParkAtomics == calls = [k \in Callers |-> IdleCall] /\ hist = NoHist

(***************************************************************************)
(* SpecBreaker: a single caller (the unit tests of circuit_breaker.rs)     *)
(***************************************************************************)
InitBreaker ==
    /\ \E th \in 0..MaxThreshold, rt \in 0..MaxWindow : inner = new(th, rt)
    /\ now \in Times
    /\ last_call = [op |-> "new", ret |-> TRUE, at |-> now, pre |-> inner]
    /\ streak = 0
    /\ fail_at = 0
    /\ ParkGateway
    /\ ParkCache
    /\ ParkAuth
    /\ ParkAtomics

\* SystemTime::now() moves forward
Tick ==
    /\ now < MaxTime
    /\ now' = now + 1
    /\ UNCHANGED <<inner, brk_vars, gw_vars, cache_vars, auth_vars,
                 atomics_vars>>

\* SystemTime is not monotonic: the wall clock is stepped back
ClockStepBack ==
    /\ \E t \in Times : t < now /\ now' = t
    /\ UNCHANGED <<inner, brk_vars, gw_vars, cache_vars, auth_vars,
                 atomics_vars>>

CallIsAvailable ==
    /\ last_call' = [op |-> "is_available", ret |-> is_available(inner, now),
                     at |-> now, pre |-> inner]
    /\ inner' = is_available_stores(inner, now)
    /\ UNCHANGED <<now, streak, fail_at, gw_vars, cache_vars, auth_vars,
                 atomics_vars>>

CallRecordSuccess ==
    /\ inner' = record_success(inner)
    /\ last_call' = [op |-> "record_success", ret |-> TRUE, at |-> now,
                     pre |-> inner]
    /\ streak' = 0
    /\ UNCHANGED <<now, fail_at, gw_vars, cache_vars, auth_vars,
                 atomics_vars>>

CallRecordFailure ==
    /\ inner.failure_count < MaxFailures
    /\ inner' = record_failure(inner, now)
    /\ last_call' = [op |-> "record_failure", ret |-> TRUE, at |-> now,
                     pre |-> inner]
    /\ streak' = streak + 1
    /\ fail_at' = now
    /\ UNCHANGED <<now, gw_vars, cache_vars, auth_vars,
                 atomics_vars>>

NextBreaker ==
    \/ Tick
    \/ ClockStepBack
    \/ CallIsAvailable
    \/ CallRecordSuccess
    \/ CallRecordFailure

SpecBreaker == InitBreaker /\ [][NextBreaker]_vars

(***************************************************************************)
(* schema.rs: the GraphQL resolvers me, register and login                 *)
(***************************************************************************)
Ops == {"me", "register", "login"}

\* tonic::Code, the codes an Err(status) carries
Codes ==
    { "Cancelled", "Unknown", "InvalidArgument", "DeadlineExceeded",
      "NotFound", "AlreadyExists", "PermissionDenied", "ResourceExhausted",
      "FailedPrecondition", "Aborted", "OutOfRange", "Unimplemented",
      "Internal", "Unavailable", "DataLoss", "Unauthenticated" }

\* the codes the downstream call is made to fail with: those the resolvers
\* and grpc_err name, and three of the rest
ErrCodes ==
    Codes \ {"FailedPrecondition", "Aborted", "OutOfRange", "Unimplemented",
             "DataLoss"}

\* check_circuit: "ok" stands for Ok(()), the rest for the error's code
check_circuit_lets_through(avail) == "ok"

check_circuit(avail) == IF ~avail THEN "SERVICE_UNAVAILABLE" ELSE "ok"

\* grpc_err: the GraphQL error code of a tonic status
grpc_err(code) ==
    CASE code = "InvalidArgument"  -> "BAD_USER_INPUT"
      [] code = "NotFound"         -> "NOT_FOUND"
      [] code = "AlreadyExists"    -> "ALREADY_EXISTS"
      [] code = "PermissionDenied" -> "FORBIDDEN"
      [] code = "Unauthenticated"  -> "UNAUTHENTICATED"
      [] code = "Unavailable"      -> "SERVICE_UNAVAILABLE"
      [] OTHER                     -> "INTERNAL_SERVER_ERROR"

\* the matches! of QueryRoot::me
me_records_failure(code) ==
    code \in {"Unavailable", "DeadlineExceeded", "Internal"}

\* the matches! of MutationRoot::register
register_records_failure(code) ==
    code \in {"Unavailable", "DeadlineExceeded", "Internal"}

login_counts_unauthenticated(code) ==
    code \in {"Unavailable", "DeadlineExceeded", "Internal", "Unauthenticated"}

\* the matches! of MutationRoot::login
login_records_failure(code) ==
    code \in {"Unavailable", "DeadlineExceeded", "Internal"}

\* the Err(status) arm of the resolver `op`
records_failure(op, code) ==
    CASE op = "me"       -> me_records_failure(code)
      [] op = "register" -> register_records_failure(code)
      [] op = "login"    -> login_records_failure(code)

resolver_match_any_answer_is_success(b, op, status, now_ms) ==
    IF status = "Ok" THEN record_success(b)
    ELSE IF records_failure(op, status) THEN record_failure(b, now_ms)
    ELSE record_success(b)

\* the `match result` of the resolver `op`: the breaker after it
resolver_match(b, op, status, now_ms) ==
    IF status = "Ok" THEN record_success(b)
    ELSE IF records_failure(op, status) THEN record_failure(b, now_ms)
    ELSE b

(***************************************************************************)
(* SpecGateway: the resolvers run as concurrent tasks that share one       *)
(* breaker.  A resolver suspends only at the downstream call's .await, so  *)
(* it takes two steps: up to the call (Begin) and from the call's          *)
(* resolution to its return (RespondOk, RespondErr).  The breaker's        *)
(* methods are called whole here.                                          *)
(***************************************************************************)
InitGateway ==
    /\ \E th \in 0..MaxThreshold, rt \in 0..MaxRecovery : inner = new(th, rt)
    /\ now \in Times
    /\ req = [p \in Requests |-> IdleReq]
    /\ response = NoResponse
    /\ ParkBreakerUnit
    /\ ParkCache
    /\ ParkAuth
    /\ ParkAtomics

\* QueryRoot::me, lines 126-136: no token, no call
MeWithoutToken(p) ==
    /\ req[p].pc = "idle"
    /\ response' = [NoResponse EXCEPT !.op = "me",
                                      !.err = "UNAUTHENTICATED"]
    /\ UNCHANGED <<inner, now, brk_vars, req, cache_vars, auth_vars,
                 atomics_vars>>

\* me (with a token), register, login up to the .await: check_circuit, then
\* the call is sent, or the resolver returns check_circuit's error
Begin(p) ==
    /\ req[p].pc = "idle"
    /\ \E op \in Ops :
        LET avail == is_available(inner, now)
            c == check_circuit(avail)
        IN  IF c = "ok"
            THEN /\ req' = [req EXCEPT ![p] =
                        [pc |-> "calling", op |-> op, avail |-> avail]]
                 /\ UNCHANGED response
            ELSE /\ response' = [NoResponse EXCEPT !.op = op,
                                    !.checked = TRUE, !.avail = avail,
                                    !.err = c]
                 /\ UNCHANGED req
    /\ UNCHANGED <<inner, now, brk_vars, cache_vars, auth_vars,
                 atomics_vars>>

\* The call resolves with Ok(resp): the Ok arm
RespondOk(p) ==
    /\ req[p].pc = "calling"
    /\ inner' = record_success(inner)
    /\ response' = [op |-> req[p].op, checked |-> TRUE,
                    avail |-> req[p].avail, started |-> TRUE,
                    outcome |-> "Ok", n_success |-> 1, n_failure |-> 0,
                    err |-> "none"]
    /\ req' = [req EXCEPT ![p] = IdleReq]
    /\ UNCHANGED <<now, brk_vars, cache_vars, auth_vars,
                 atomics_vars>>

\* The call resolves with Err(status): the Err arm
RespondErr(p) ==
    /\ req[p].pc = "calling"
    /\ \E code \in ErrCodes :
        LET failure == records_failure(req[p].op, code)
        IN  /\ failure => inner.failure_count < MaxFailures
            /\ inner' = resolver_match(inner, req[p].op, code, now)
            /\ response' = [op |-> req[p].op, checked |-> TRUE,
                            avail |-> req[p].avail, started |-> TRUE,
                            outcome |-> code, n_success |-> 0,
                            n_failure |-> IF failure THEN 1 ELSE 0,
                            err |-> grpc_err(code)]
    /\ req' = [req EXCEPT ![p] = IdleReq]
    /\ UNCHANGED <<now, brk_vars, cache_vars, auth_vars,
                 atomics_vars>>

dropped_at_await_counts_failure(b, now_ms) == record_failure(b, now_ms)

\* Inner after a resolver's future is dropped at the downstream call's
\* .await: the lines after the .await do not run, and the resolver holds
\* nothing whose Drop touches the breaker
dropped_at_await(b, now_ms) == b

\* The request is cancelled while its call is pending (the client went
\* away): the resolver's future is dropped at the .await
Abandon(p) ==
    /\ req[p].pc = "calling"
    /\ inner' = dropped_at_await(inner, now)
    /\ response' = [op |-> req[p].op, checked |-> TRUE,
                    avail |-> req[p].avail, started |-> TRUE,
                    outcome |-> "abandoned", n_success |-> 0,
                    n_failure |-> 0, err |-> "none"]
    /\ req' = [req EXCEPT ![p] = IdleReq]
    /\ UNCHANGED <<now, brk_vars, cache_vars, auth_vars,
                 atomics_vars>>

\* router.rs, health and check_auth_service_health: GET /health sends
\* ValidateToken with an empty token on the shared channel and reports
\* whether the call was Ok; the handler holds no breaker
Health ==
    /\ \E outcome \in {"Ok", "Unavailable", "DeadlineExceeded"} :
         response' = [NoResponse EXCEPT !.op = "health", !.started = TRUE,
                                        !.outcome = outcome]
    /\ UNCHANGED <<inner, now, brk_vars, req, cache_vars, auth_vars,
                 atomics_vars>>

NextGateway ==
    \/ Tick
    \/ ClockStepBack
    \/ Health
    \/ \E p \in Requests : MeWithoutToken(p)
    \/ \E p \in Requests : Begin(p)
    \/ \E p \in Requests : RespondOk(p)
    \/ \E p \in Requests : RespondErr(p)
    \/ \E p \in Requests : Abandon(p)

SpecGateway == InitGateway /\ [][NextGateway]_vars

(***************************************************************************)
(* SpecLive: the gateway's login under fairness.  The clock keeps          *)
(* advancing (up to MaxTime), requests keep arriving, and a downstream     *)
(* call does not stay pending for ever (the channel has a timeout,         *)
(* main.rs 80-82).  A failure is recorded only while the clock values left *)
(* let its recovery window elapse.                                         *)
(***************************************************************************)
LiveHorizon == now + inner.recovery_timeout <= MaxTime

\* MutationRoot::login up to the .await
LiveBegin(p) ==
    /\ Begin(p)
    /\ IF req'[p].pc = "calling" THEN req'[p].op = "login"
                                 ELSE response'.op = "login"

\* the Err arm, for an infrastructure failure and for a rejection
LiveRespondErr(p) ==
    /\ LiveHorizon
    /\ RespondErr(p)
    /\ response'.outcome \in {"Unavailable", "Unauthenticated"}

\* the call resolves or the request is dropped
LiveResolve(p) == RespondOk(p) \/ LiveRespondErr(p) \/ Abandon(p)

NextLive ==
    \/ Tick
    \/ \E p \in Requests : LiveBegin(p)
    \/ \E p \in Requests : RespondOk(p)
    \/ \E p \in Requests : LiveRespondErr(p)
    \/ \E p \in Requests : Abandon(p)

SpecLive ==
    /\ InitGateway
    /\ [][NextLive]_vars
    /\ WF_vars(Tick)
    /\ \A p \in Requests : WF_vars(LiveBegin(p))
    /\ \A p \in Requests : WF_vars(LiveResolve(p))

(***************************************************************************)
(* SpecCache: threads of the auth-service call                             *)
(* CachedTokenService::validate_token over a JwtTokenService.  A step is   *)
(* one operation on the cache or one call of the wrapped service.          *)
(***************************************************************************)
InitCache ==
    /\ \E ttl \in 0..MaxTtl, cap \in 0..MaxCapacity :
          cache = new_cache(ttl, cap)
    /\ now = 0
    /\ vt = [p \in Threads |-> IdleThread]
    /\ vresult = NoResult
    /\ validated = [t \in Tokens |-> None]
    /\ evicted = [t \in Tokens |-> FALSE]
    /\ inner = new(0, 0)
    /\ ParkBreakerUnit
    /\ ParkGateway
    /\ ParkAuth
    /\ ParkAtomics

\* moka's clock (and the wall clock decode() reads) moves forward
CacheTick ==
    /\ now < MaxTime
    /\ now' = now + 1
    /\ UNCHANGED <<inner, brk_vars, gw_vars, cache_vars, auth_vars,
                 atomics_vars>>

\* a successful validation of `token` is on record, its TTL has not
\* elapsed, and capacity eviction has not removed it
ExpectHit(token) ==
    /\ validated[token] # None
    /\ now < validated[token].at + cache.ttl_secs
    /\ ~evicted[token]

\* the cache holds an entry for `token` whose TTL has elapsed
Stale(token) ==
    /\ cache.entries[token] # None
    /\ now >= cache.entries[token].at + cache.ttl_secs

\* validate_token, lines 52-54: the lookup; a hit returns
VtGet(p) ==
    /\ vt[p].pc = "idle"
    /\ \E token \in Tokens :
        LET g == cache_get(cache, token, now)
        IN  IF g # None
            THEN /\ vresult' = [token |-> token, result |-> Ok(g.data),
                                hit |-> TRUE, invoked |-> FALSE,
                                expect_hit |-> ExpectHit(token),
                                stale |-> Stale(token), again |-> FALSE]
                 /\ UNCHANGED vt
            ELSE /\ vt' = [vt EXCEPT ![p] =
                        [pc |-> "inner", token |-> token,
                         expect_hit |-> ExpectHit(token),
                         stale |-> Stale(token)]]
                 /\ UNCHANGED vresult
    /\ UNCHANGED <<inner, now, brk_vars, gw_vars, cache, validated, evicted, auth_vars,
                 atomics_vars>>

\* validate_token, line 57: the wrapped service is called; its error
\* returns
VtInner(p) ==
    /\ vt[p].pc = "inner"
    /\ LET r == jwt_validate_token(vt[p].token, now)
       IN  IF goes_on_to_insert(r)
           THEN /\ vt' = [vt EXCEPT ![p] =
                       [pc |-> "insert", token |-> vt[p].token,
                        expect_hit |-> vt[p].expect_hit,
                        stale |-> vt[p].stale, r |-> r]]
                /\ UNCHANGED vresult
           ELSE /\ vresult' = [token |-> vt[p].token, result |-> r,
                               hit |-> FALSE, invoked |-> TRUE,
                               expect_hit |-> vt[p].expect_hit,
                               stale |-> vt[p].stale,
                               again |-> (vresult.token = vt[p].token
                                            /\ vresult.result = r)]
                /\ vt' = [vt EXCEPT ![p] = IdleThread]
    /\ UNCHANGED <<inner, now, brk_vars, gw_vars, cache, validated, evicted, auth_vars,
                 atomics_vars>>

\* validate_token, lines 58-59: the result is inserted and returned
VtInsert(p) ==
    /\ vt[p].pc = "insert"
    /\ LET token == vt[p].token
           r == vt[p].r
       IN  /\ cache' = vt_insert(cache, token, r.data, now)
           /\ vresult' = [token |-> token, result |-> Ok(r.data), hit |-> FALSE,
                          invoked |-> TRUE, expect_hit |-> vt[p].expect_hit,
                          stale |-> vt[p].stale, again |-> FALSE]
           /\ IF r.ok
              THEN /\ validated' = [validated EXCEPT ![token] =
                                        [at |-> now, data |-> r.data]]
                   /\ evicted' = [evicted EXCEPT ![token] = FALSE]
              ELSE UNCHANGED <<validated, evicted>>
    /\ vt' = [vt EXCEPT ![p] = IdleThread]
    /\ UNCHANGED <<inner, now, brk_vars, gw_vars, auth_vars,
                 atomics_vars>>

\* moka's housekeeping removes an expired entry, or, over max_capacity,
\* an entry of its choice
Evict ==
    /\ \E token \in Tokens :
        /\ cache.entries[token] # None
        /\ \/ cache_expired(cache, cache.entries[token], now)
           \/ cache_size(cache) > cache.max_capacity
        /\ cache' = [cache EXCEPT !.entries[token] = None]
        /\ evicted' = [evicted EXCEPT ![token] =
                          @ \/ ~cache_expired(cache, cache.entries[token], now)]
    /\ UNCHANGED <<inner, now, brk_vars, gw_vars, vt, vresult, validated, auth_vars,
                 atomics_vars>>

NextCache ==
    \/ CacheTick
    \/ \E p \in Threads : VtGet(p)
    \/ \E p \in Threads : VtInner(p)
    \/ \E p \in Threads : VtInsert(p)
    \/ Evict

SpecCache == InitCache /\ [][NextCache]_vars

(***************************************************************************)
(* SpecAuth: threads of the auth-service running Register and Login on    *)
(* one users table (grpc/service.rs builds a use case per request)         *)
(***************************************************************************)
\* the emails a row can hold
StoredEmails == {Email_new(e).data : e \in {x \in RawEmails : Email_new(x).ok}}

\* the password the rows present at start were registered with
SeedPassword == <<"p", "a", "s", "s", "w", "o", "r", "d">>

\* A row present at start: registered earlier, possibly deactivated or
\* rewritten since by whatever else writes the table.
SeedRows(e) ==
    LET id == IF Head(e) = "a" THEN 1 ELSE 2
    IN  { [ id |-> id, email |-> e, hashed_password |-> phc(SeedPassword),
            is_active |-> TRUE ],
          [ id |-> id, email |-> e, hashed_password |-> phc(SeedPassword),
            is_active |-> FALSE ],
          [ id |-> id, email |-> e, hashed_password |-> Unparsable,
            is_active |-> TRUE ] }

\* the tables at start: at most one row per email
SeedTables ==
    { rows \in SUBSET (UNION {SeedRows(e) : e \in StoredEmails}) :
        \A u, v \in rows : u.email = v.email => u = v }

InitAuth ==
    /\ users \in SeedTables
    /\ auth = [t \in Threads |-> AuthIdle]
    /\ returned = AuthIdle
    /\ inner = new(0, 0)
    /\ now = 0
    /\ ParkBreakerUnit
    /\ ParkGateway
    /\ ParkCache
    /\ ParkAtomics

\* a thread enters Register and runs it up to the hashing
RegisterChecks(t) ==
    /\ auth[t].pc = "idle"
    /\ \E email \in RawEmails, password \in Passwords, db_ok, hash_ok \in BOOLEAN :
           LET r == register_checks(users, email, password, db_ok, hash_ok)
           IN  IF r.pc = "done"
               THEN returned' = r /\ UNCHANGED auth
               ELSE auth' = [auth EXCEPT ![t] = r] /\ UNCHANGED returned
    /\ UNCHANGED <<inner, now, brk_vars, gw_vars, cache_vars, users,
                 atomics_vars>>

\* the thread persists the user and returns
RegisterCreate(t) ==
    /\ auth[t].pc = "hashed"
    /\ \E db_ok, reread_ok \in BOOLEAN :
           LET r == register_create(users, auth[t], db_ok, reread_ok)
           IN  /\ users' = r.rows
               /\ returned' = r.call
               /\ auth' = [auth EXCEPT ![t] = AuthIdle]
    /\ UNCHANGED <<inner, now, brk_vars, gw_vars, cache_vars,
                 atomics_vars>>

\* a thread runs Login: one query, then local steps
Login(t) ==
    /\ auth[t].pc = "idle"
    /\ \E email \in RawEmails, password \in Passwords, db_ok, encode_ok \in BOOLEAN :
           returned' = login_execute(users, email, password, now, db_ok, encode_ok)
    /\ UNCHANGED <<inner, now, brk_vars, gw_vars, cache_vars, users, auth,
                 atomics_vars>>

NextAuth ==
    \E t \in Threads : RegisterChecks(t) \/ RegisterCreate(t) \/ Login(t)

SpecAuth == InitAuth /\ [][NextAuth]_vars

(***************************************************************************)
(* SpecEndToEnd: one client of the gateway; a request runs from the        *)
(* resolver's check_circuit through the auth-service's handler to the      *)
(* resolver's match on the result.  `returned` is what the handler         *)
(* answered, `response` what the resolver did with it.                     *)
(***************************************************************************)
\* the address whose row the table may hold at start
E2eStored == { <<"a", "@", "b", ".", "c">> }

InitEndToEnd ==
    /\ \E th \in 0..MaxThreshold, rt \in 0..MaxRecovery : inner = new(th, rt)
    /\ now = 0
    /\ users \in {rows \in SeedTables : \A u \in rows : u.email \in E2eStored}
    /\ returned = AuthIdle
    /\ auth = [t \in Threads |-> AuthIdle]
    /\ response = NoResponse
    /\ req = [p \in Requests |-> IdleReq]
    /\ ParkBreakerUnit
    /\ ParkCache
    /\ ParkAtomics

\* what the channel hands the resolver: the call does not reach the
\* auth-service, or times out there, or reaches it
Transports == {"Unavailable", "DeadlineExceeded", "reached"}

\* what the handler answered: the use case's record without the request
\* and the row it read
answered(call) ==
    [call EXCEPT !.email = <<>>, !.password = <<>>, !.found = None,
                 !.user = None,
                 !.result = IF call.result.ok THEN Ok(None) ELSE call.result]

\* the resolver `op` from check_circuit to its return, `call` being the
\* handler's record and `transport` what the channel does
Resolve(op, call, transport) ==
    LET avail == is_available(inner, now)
        c == check_circuit(avail)
        status == IF transport = "reached" THEN grpc_status(call.result)
                  ELSE transport
        failure == status # "Ok" /\ records_failure(op, status)
    IN  IF c # "ok"
        THEN /\ response' = [NoResponse EXCEPT !.op = op, !.checked = TRUE,
                                               !.avail = avail, !.err = c]
             /\ returned' = AuthIdle
             /\ UNCHANGED inner
        ELSE /\ failure => inner.failure_count < MaxFailures
             /\ inner' = resolver_match(inner, op, status, now)
             /\ returned' = IF transport = "reached" THEN answered(call)
                          ELSE AuthIdle
             /\ response' =
                  [ op |-> op, checked |-> TRUE, avail |-> avail,
                    started |-> TRUE, outcome |-> status,
                    n_success |-> IF status = "Ok" THEN 1 ELSE 0,
                    n_failure |-> IF failure THEN 1 ELSE 0,
                    err |-> IF status = "Ok" THEN "none"
                            ELSE grpc_err(status) ]

e2e_frame == <<now, brk_vars, req, cache_vars, auth, atomics_vars>>

\* the addresses the client sends: one that normalizes to E2eStored and
\* one that Email::new rejects
E2eEmails == { <<" ", "A", "@", "B", ".", "c", " ">>, <<"a", "b", ".", "c">> }


\* the call fails in the channel: the handler does not answer
E2eTransportError ==
    /\ \E op \in Ops, transport \in Transports \ {"reached"} :
         Resolve(op, AuthIdle, transport)
    /\ UNCHANGED <<users, e2e_frame>>

\* MutationRoot::register
E2eRegister ==
    /\ \E email \in E2eEmails, password \in Passwords,
          fault \in {"none", "db", "reread"} :
         LET r == grpc_register(users, email, password, fault # "db", TRUE,
                                TRUE, fault # "reread")
         IN  /\ Resolve("register", r.call, "reached")
             /\ users' = IF response'.started THEN r.rows ELSE users
    /\ UNCHANGED e2e_frame

\* MutationRoot::login
E2eLogin ==
    /\ \E email \in E2eEmails, password \in Passwords,
          fault \in {"none", "db", "token"} :
         Resolve("login",
                 grpc_login(users, email, password, now, fault # "db",
                            fault # "token"),
                 "reached")
    /\ UNCHANGED <<users, e2e_frame>>

\* QueryRoot::me with a token
E2eMe ==
    /\ \E token \in Tokens, fault \in {"none", "db"} :
         Resolve("me", grpc_get_me(users, token, now, fault # "db"),
                 "reached")
    /\ UNCHANGED <<users, e2e_frame>>

NextEndToEnd ==
    \/ Tick
    \/ E2eTransportError
    \/ E2eRegister
    \/ E2eLogin
    \/ E2eMe

SpecEndToEnd == InitEndToEnd /\ [][NextEndToEnd]_vars

(***************************************************************************)
(* SpecAtomics: tasks call the breaker's methods at the same time.  A step *)
(* is one atomic operation on Inner, or one reading of the clock, in       *)
(* program order.                                                          *)
(***************************************************************************)
InitAtomics ==
    /\ \E th \in 0..MaxThreshold, rt \in 0..MaxRecovery : inner = new(th, rt)
    /\ now \in Times
    /\ calls = [k \in Callers |-> IdleCall]
    /\ hist = [NoHist EXCEPT !.reached = inner.failure_count >= inner.threshold]
    /\ ParkBreakerUnit
    /\ ParkGateway
    /\ ParkCache
    /\ ParkAuth

\* what SpecAtomics leaves alone
atomics_frame == <<brk_vars, gw_vars, cache_vars, auth_vars>>

\* record_success, line 66
RsStoreCount(k) ==
    /\ calls[k].pc = "idle"
    /\ hist.rs + hist.rf < MaxCalls
    /\ inner' = rs_store_count(inner)
    /\ calls' = [calls EXCEPT ![k] =
                  [IdleCall EXCEPT !.pc = "rs_open", !.op = "record_success"]]
    /\ hist' = [hist EXCEPT !.rs = @ + 1,
                            !.reached = @ \/ inner'.failure_count >= inner'.threshold]
    /\ UNCHANGED <<now, atomics_frame>>

\* record_success, line 67, and the return
RsStoreOpen(k) ==
    /\ calls[k].pc = "rs_open"
    /\ inner' = rs_store_open(inner)
    /\ calls' = [calls EXCEPT ![k].pc = "idle"]
    /\ UNCHANGED <<now, hist, atomics_frame>>

\* record_failure, lines 72-73: the fetch_add and the test of its result;
\* below the threshold the method returns
RfFetchAdd(k) ==
    /\ calls[k].pc = "idle"
    /\ hist.rs + hist.rf < MaxCalls
    /\ inner.failure_count < MaxFailures
    /\ LET b == rf_fetch_add(inner)
           count == rf_count(inner)
       IN  /\ inner' = b
           /\ calls' = [calls EXCEPT ![k] =
                         [IdleCall EXCEPT
                            !.pc = IF rf_trips(b, count) THEN "rf_open"
                                                         ELSE "idle",
                            !.op = "record_failure", !.count = count]]
    /\ hist' = [hist EXCEPT !.rf = @ + 1,
                            !.reached = @ \/ inner'.failure_count >= inner'.threshold]
    /\ UNCHANGED <<now, atomics_frame>>

\* record_failure, line 74
RfStoreOpen(k) ==
    /\ calls[k].pc = "rf_open"
    /\ inner' = rf_store_open(inner)
    /\ calls' = [calls EXCEPT ![k].pc = "rf_clock"]
    /\ UNCHANGED <<now, hist, atomics_frame>>

\* record_failure, lines 75-78: SystemTime::now()
RfClock(k) ==
    /\ calls[k].pc = "rf_clock"
    /\ calls' = [calls EXCEPT ![k].pc = "rf_last", ![k].now_ms = now]
    /\ UNCHANGED <<inner, now, hist, atomics_frame>>

\* record_failure, line 79, and the return
RfStoreLast(k) ==
    /\ calls[k].pc = "rf_last"
    /\ inner' = rf_store_last(inner, calls[k].now_ms)
    /\ calls' = [calls EXCEPT ![k].pc = "idle"]
    /\ UNCHANGED <<now, hist, atomics_frame>>

\* is_available, lines 49-51: the load of is_open; closed returns true
IaLoadOpen(k) ==
    /\ calls[k].pc = "idle"
    /\ calls' = [calls EXCEPT ![k] =
                  [IdleCall EXCEPT
                     !.pc = IF inner.is_open THEN "ia_clock" ELSE "idle",
                     !.op = "is_available", !.ret = TRUE]]
    /\ UNCHANGED <<inner, now, hist, atomics_frame>>

\* is_available, lines 54-57: SystemTime::now()
IaClock(k) ==
    /\ calls[k].pc = "ia_clock"
    /\ calls' = [calls EXCEPT ![k].pc = "ia_last", ![k].now_ms = now]
    /\ UNCHANGED <<inner, now, hist, atomics_frame>>

\* is_available, lines 58-61: the load of last_failure_ms, the comparison
\* and the return
IaLoadLast(k) ==
    /\ calls[k].pc = "ia_last"
    /\ calls' = [calls EXCEPT ![k].pc = "idle",
                            ![k].ret = recovery_elapsed(inner, calls[k].now_ms)]
    /\ UNCHANGED <<inner, now, hist, atomics_frame>>

NextAtomics ==
    \/ Tick
    \/ ClockStepBack
    \/ \E k \in Callers : RsStoreCount(k)
    \/ \E k \in Callers : RsStoreOpen(k)
    \/ \E k \in Callers : RfFetchAdd(k)
    \/ \E k \in Callers : RfStoreOpen(k)
    \/ \E k \in Callers : RfClock(k)
    \/ \E k \in Callers : RfStoreLast(k)
    \/ \E k \in Callers : IaLoadOpen(k)
    \/ \E k \in Callers : IaClock(k)
    \/ \E k \in Callers : IaLoadLast(k)

SpecAtomics == InitAtomics /\ [][NextAtomics]_vars

(***************************************************************************)
(* Claims                                                                  *)
(***************************************************************************)

\* C1: with threshold N >= 1 and a recovery window > 0 that has not elapsed,
\* is_available() returns true after k < N consecutive record_failure()
\* calls since new()/record_success(), and false after exactly N.
C1_OpensAtThreshold ==
    (last_call.op = "is_available" /\ inner.threshold >= 1
        /\ inner.recovery_timeout > 0) =>
        /\ (streak < inner.threshold => last_call.ret = TRUE)
        /\ (streak = inner.threshold
              /\ last_call.at - fail_at < inner.recovery_timeout
              => last_call.ret = FALSE)

C1_Witness ==
    /\ last_call.op = "is_available"
    /\ inner.threshold = 2
    /\ inner.recovery_timeout = 1
    /\ streak = 2
    /\ last_call.at = fail_at
    /\ last_call.ret = FALSE

\* C2: from every breaker state a single record_success() leaves
\* failure_count = 0 and is_open = false, and is_available() is then true
\* at every clock value.
C2_SuccessCloses ==
    last_call.op = "record_success" =>
        /\ inner.failure_count = 0
        /\ inner.is_open = FALSE
        /\ \A t \in Times : is_available(inner, t)

C2_Witness ==
    /\ last_call.op = "record_success"
    /\ last_call.pre.is_open
    /\ last_call.pre.failure_count >= 2
    /\ ~is_available(last_call.pre, last_call.at)
    /\ inner.failure_count = 0

TransientCodes == {"Unavailable", "DeadlineExceeded", "Internal"}
BusinessCodes ==
    { "InvalidArgument", "NotFound", "AlreadyExists", "PermissionDenied",
      "Unauthenticated" }

\* some resolver's downstream call resolved in this step
Responded == \E p \in Requests : req[p].pc = "calling" /\ req'[p].pc = "idle"

\* C3: in me, register and login an Ok response calls record_success()
\* once, an Unavailable, DeadlineExceeded or Internal error calls
\* record_failure() once, and an InvalidArgument, NotFound, AlreadyExists,
\* PermissionDenied or Unauthenticated error calls neither and leaves the
\* breaker's state as it was.
C3_OutcomeRouting ==
    /\ []((response.started /\ response.op \in Ops) =>
            /\ response.outcome = "Ok" =>
                  response.n_success = 1 /\ response.n_failure = 0
            /\ response.outcome \in TransientCodes =>
                  response.n_success = 0 /\ response.n_failure = 1
            /\ response.outcome \in BusinessCodes =>
                  response.n_success = 0 /\ response.n_failure = 0)
    /\ [][(Responded /\ response'.outcome \in BusinessCodes)
             => inner' = inner]_vars

C3_Witness ==
    /\ response.started
    /\ response.op = "login"
    /\ response.outcome = "Unauthenticated"
    /\ response.n_failure = 0
    /\ inner.failure_count = 1

\* C4: when is_available() returns false at the start of me (with a token),
\* register or login, the resolver fails with SERVICE_UNAVAILABLE, no call
\* to the auth-service is started and the breaker is left as it was.
C4_FailFast ==
    /\ [](/\ \A p \in Requests : req[p].pc = "calling" => req[p].avail
          /\ (response.checked /\ ~response.avail) =>
                /\ response.err = "SERVICE_UNAVAILABLE"
                /\ ~response.started
                /\ response.n_success = 0
                /\ response.n_failure = 0)
    /\ [][(response' # response /\ response'.checked /\ ~response'.avail)
             => (inner' = inner /\ req' = req)]_vars

C4_Witness ==
    /\ response.checked
    /\ ~response.avail
    /\ response.op = "register"
    /\ response.err = "SERVICE_UNAVAILABLE"
    /\ inner.is_open

\* C5: once validate_token(t) has succeeded, a validate_token(t) made
\* before the TTL elapses and without capacity eviction is served from the
\* cache: same claims, and the wrapped service is not invoked.
C5_CachedHit ==
    /\ \A p \in Threads : vt[p].pc # "idle" => ~vt[p].expect_hit
    /\ vresult.expect_hit =>
          /\ vresult.hit
          /\ ~vresult.invoked
          /\ vresult.result = Ok(validated[vresult.token].data)

C5_Witness ==
    /\ vresult.expect_hit
    /\ vresult.hit
    /\ vresult.token.raw = "late"
    /\ vresult.result.data.user_id = "u2"
    /\ now = validated[vresult.token].at + 1

\* the error the wrapped service gives for a token it rejects
RejectionOf(token) ==
    IF token.signed /\ token.sub_is_uuid THEN "TokenExpired" ELSE "InvalidToken"

\* C6: a failed validate_token(t) is never cached: no entry exists for a
\* token no validation of which succeeded, the wrapped service's error is
\* what the caller gets, and every failing call invoked the wrapped service.
C6_FailuresNotCached ==
    /\ \A t \in Tokens : cache.entries[t] # None => validated[t] # None
    /\ (vresult.token # None /\ ~vresult.result.ok) =>
          /\ vresult.invoked
          /\ ~vresult.hit
          /\ vresult.result = Err(RejectionOf(vresult.token))

C6_Witness ==
    /\ vresult.token # None
    /\ vresult.token.raw = "forged"
    /\ ~vresult.result.ok
    /\ vresult.again
    /\ vresult.invoked
    /\ cache.entries[vresult.token] = None

\* C7: no cached result is served once its TTL has elapsed: a
\* validate_token(t) issued at or after insertion time + ttl misses and
\* invokes the wrapped service, under capacity pressure or not.
C7_TtlBound ==
    /\ vresult.hit => ~vresult.stale
    /\ vresult.stale => vresult.invoked

C7_Witness ==
    /\ vresult.stale
    /\ vresult.invoked
    /\ ~vresult.hit
    /\ cache.ttl_secs = 1
    /\ cache_size(cache) <= cache.max_capacity

\* what normalizes to the email of a command
normalized(email) == to_lowercase(trim(email))

\* exists_by_email was asked and answered b
Reported(b) ==
    returned.found # None /\ returned.found.ok /\ returned.found.data = b

\* C8: Register checks the email format, then that the email is not
\* registered, then the password length, and each check returns its own
\* error: an invalid email gives InvalidEmail without the repository being
\* queried, a valid email the repository reports as registered gives
\* UserAlreadyExists whatever the password, WeakPassword is returned exactly
\* for a short password with a valid email reported unregistered; hash and
\* create are invoked only when all three checks passed, and the table
\* changes only in a step where create was invoked.
C8_RegisterCheckOrder ==
    /\ [](returned.op = "register" =>
            LET e == Email_new(returned.email)
                weak == len(returned.password) < MinPasswordLen
                untouched == ~returned.hash_called /\ ~returned.create_called
            IN  /\ ~e.ok => /\ returned.result = Err("InvalidEmail")
                            /\ returned.found = None
                            /\ untouched
                /\ (e.ok /\ Reported(TRUE)) =>
                       /\ returned.result = Err("UserAlreadyExists")
                       /\ untouched
                       /\ \E u \in users : u.email = e.data
                /\ (e.ok /\ Reported(FALSE) /\ weak) =>
                       /\ returned.result = Err("WeakPassword")
                       /\ untouched
                /\ returned.result = Err("WeakPassword") =>
                       e.ok /\ Reported(FALSE) /\ weak
                /\ (returned.hash_called \/ returned.create_called) =>
                       e.ok /\ Reported(FALSE) /\ ~weak
                /\ returned.create_called => returned.hash_called)
    /\ [][users' # users =>
             returned'.op = "register" /\ returned'.create_called]_vars

C8_Witness ==
    /\ returned.op = "register"
    /\ Email_new(returned.email).ok
    /\ Reported(TRUE)
    /\ len(returned.password) < MinPasswordLen
    /\ returned.result = Err("UserAlreadyExists")

\* C9: Login checks that the user exists, then that the account is active,
\* then the password: an inactive account gives AccountInactive and verify
\* is not invoked, a wrong password on an active account gives
\* InvalidCredentials, and create_token is invoked exactly when the user
\* was found, is active and the password verified; every Ok comes from
\* create_token.
C9_LoginCheckOrder ==
    returned.op = "login" =>
        /\ ~returned.found.ok =>
               /\ ~returned.verify_called
               /\ ~returned.token_called
               /\ ~returned.result.ok
        /\ returned.found.ok =>
               LET user == returned.found.data
                   is_valid == verify(returned.password, user.hashed_password)
               IN  /\ ~user.is_active =>
                          /\ returned.result = Err("AccountInactive")
                          /\ ~returned.verify_called
                          /\ ~returned.token_called
                   /\ user.is_active => returned.verify_called
                   /\ (user.is_active /\ is_valid.ok /\ ~is_valid.data) =>
                          returned.result = Err("InvalidCredentials")
                   /\ returned.token_called <=>
                          (user.is_active /\ is_valid.ok /\ is_valid.data)
                   /\ returned.result.ok => returned.token_called

C9_Witness ==
    /\ returned.op = "login"
    /\ returned.found.ok
    /\ ~returned.found.data.is_active
    /\ verify(returned.password, returned.found.data.hashed_password).ok
    /\ ~verify(returned.password, returned.found.data.hashed_password).data
    /\ returned.result = Err("AccountInactive")

\* C10: Login never returns UserNotFound: an email with no row and a wrong
\* password for an active user both return InvalidCredentials, and any
\* other error of find_by_email is an Internal that is returned as it is.
C10_NoUserNotFound ==
    returned.op = "login" =>
        /\ returned.result # Err("UserNotFound")
        /\ returned.found = Err("UserNotFound") =>
               /\ returned.result = Err("InvalidCredentials")
               /\ ~\E u \in users : u.email = normalized(returned.email)
        /\ ( /\ returned.found.ok
             /\ returned.found.data.is_active
             /\ verify(returned.password,
                       returned.found.data.hashed_password).ok
             /\ ~verify(returned.password,
                        returned.found.data.hashed_password).data ) =>
               returned.result = Err("InvalidCredentials")
        /\ (~returned.found.ok /\ returned.found # Err("UserNotFound")) =>
               /\ is_internal(returned.found.err)
               /\ returned.result = returned.found

C10_Witness ==
    /\ returned.op = "login"
    /\ returned.found = Err("UserNotFound")
    /\ returned.email \in {e \in RawEmails : Email_new(e).ok}
    /\ returned.result = Err("InvalidCredentials")

\* C11: a Register that succeeds returns the id and the normalized email
\* of a row it left in the table; rows are never removed; from then on a
\* Register whose email normalizes to the email of a row, and whose query
\* is answered, returns UserAlreadyExists and leaves the table as it is;
\* so the table never holds two rows whose emails normalize to the same
\* value.
C11_OneUserPerEmail ==
    /\ [](\A u, v \in users :
             normalized(u.email) = normalized(v.email) => u = v)
    /\ []((returned.op = "register" /\ returned.result.ok) =>
             /\ returned.result.data.email = normalized(returned.email)
             /\ \E u \in users :
                    /\ u.id = returned.result.data.user_id
                    /\ u.email = returned.result.data.email)
    /\ [][users \subseteq users']_vars
    /\ [][( /\ auth' = auth
             /\ returned'.op = "register"
             /\ returned'.found # None
             /\ returned'.found.ok
             /\ \E u \in users : u.email = normalized(returned'.email) ) =>
               /\ returned'.result = Err("UserAlreadyExists")
               /\ users' = users]_vars

\* a Register with a re-cased, padded email is refused because of a row
\* that an earlier Register created
C11_Witness ==
    /\ returned.op = "register"
    /\ returned.email # normalized(returned.email)
    /\ returned.result = Err("UserAlreadyExists")
    /\ \E u \in users :
           /\ u.email = normalized(returned.email)
           /\ u.hashed_password.fmt = "phc"
           /\ u.hashed_password.of # SeedPassword

\* C12: with a recovery window of 0, the record_failure() that reaches the
\* threshold marks the breaker open, and is_available() called right after
\* it, or at any clock value, returns true and leaves the breaker marked
\* open; this for every threshold.
C12_ZeroWindow ==
    inner.recovery_timeout = 0 =>
        /\ (last_call.op = "record_failure" /\ streak >= inner.threshold) =>
               /\ inner.is_open
               /\ \A t \in Times : is_available(inner, t)
        /\ (last_call.op = "is_available" /\ last_call.pre.is_open) =>
               /\ last_call.ret = TRUE
               /\ inner.is_open

C12_Witness ==
    /\ inner.recovery_timeout = 0
    /\ inner.threshold = 1
    /\ streak = 1
    /\ last_call.op = "is_available"
    /\ last_call.at = fail_at
    /\ last_call.pre.is_open
    /\ last_call.ret = TRUE

\* C13: with a threshold >= 1, a record_failure() called while the breaker
\* is already open and still cooling down (the clock has moved on since
\* the tripping failure, the recovery window has not elapsed) leaves the
\* failure timestamp as the tripping failure wrote it.
C13_TimestampOnlyOnTrip ==
    [][( /\ streak' = streak + 1
         /\ inner.threshold >= 1
         /\ inner.is_open
         /\ now > inner.last_failure_ms
         /\ ~recovery_elapsed(inner, now) ) =>
           inner'.last_failure_ms = inner.last_failure_ms]_vars

\* C14: a downstream error whose code is neither Unavailable,
\* DeadlineExceeded, Internal nor one of the five business codes (Unknown,
\* Cancelled, ResourceExhausted, ...) makes the resolver call
\* record_failure() once.
C14_UnlistedCodesCount ==
    ( /\ response.started
      /\ response.outcome \in Codes \ (TransientCodes \cup BusinessCodes) ) =>
        response.n_failure = 1 /\ response.n_success = 0

\* C15: on an open breaker (threshold >= 1, recovery window > 0), once
\* is_available() has returned true (the probe is admitted), the next
\* is_available() call made before any record_success() or
\* record_failure() returns false.
C15_SingleProbe ==
    [][( /\ last_call.op = "is_available"
         /\ last_call.ret
         /\ inner.is_open
         /\ inner.threshold >= 1
         /\ inner.recovery_timeout > 0
         /\ last_call'.op = "is_available"
         /\ last_call' # last_call ) =>
           ~last_call'.ret]_vars

\* C16: of the validate_token requests racing on one uncached token, only
\* one writes the cache: a request never inserts an entry for a token that
\* already has a live entry, written by another request since this one
\* looked the token up.
C16_SingleCacheWrite ==
    [][\A p \in Threads :
          (vt[p].pc = "insert" /\ vt'[p].pc = "idle") =>
              cache_get(cache, vt[p].token, now) = None]_vars

\* the (failure_count, is_open) pairs that s record_success() calls and f
\* record_failure() calls leave when run one after the other, in any
\* order, on breaker b
RECURSIVE SerialOutcomes(_, _, _)
SerialOutcomes(b, s, f) ==
    IF s = 0 /\ f = 0 THEN {<<b.failure_count, b.is_open>>}
    ELSE (IF s > 0 THEN SerialOutcomes(record_success(b), s - 1, f) ELSE {})
         \cup
         (IF f > 0 THEN SerialOutcomes(record_failure(b, 0), s, f - 1) ELSE {})

\* C17: with a threshold >= 1, whenever no call is in progress,
\* failure_count and is_open are what some serial order of the
\* record_success() and record_failure() calls made so far leaves.
C17_Linearizable ==
    (inner.threshold >= 1 /\ \A k \in Callers : calls[k].pc = "idle") =>
        <<inner.failure_count, inner.is_open>> \in
            SerialOutcomes(new(inner.threshold, inner.recovery_timeout),
                           hist.rs, hist.rf)

\* C18: a request the auth-service answers with a domain-level AuthError
\* (any but Internal) leaves the breaker as it was: it is not counted as a
\* failure, so wrong-password logins, however many, neither open the
\* circuit nor change the failure count.
C18_DomainErrorsNeverTrip ==
    [][(/\ response'.started
        /\ returned'.result # None
        /\ ~returned'.result.ok
        /\ returned'.result.err \in DomainErrors)
       => /\ inner' = inner
          /\ response'.n_failure = 0
          /\ ~records_failure(response'.op, response'.outcome)]_vars

\* a wrong-password login answered while the breaker is closed with a
\* failure already counted
C18_Witness ==
    /\ response.op = "login"
    /\ response.started
    /\ response.outcome = "Unauthenticated"
    /\ returned.result = Err("InvalidCredentials")
    /\ returned.verify_called
    /\ ~inner.is_open
    /\ inner.failure_count = 1

\* C19: whenever the gateway has made a call to the auth-service (get_me,
\* register, login or the /health probe's validate_token), is_available()
\* had returned true for that request, and an Ok outcome was recorded with
\* record_success(), an Unavailable, DeadlineExceeded or Internal one
\* with record_failure().
C19_EveryCallGuarded ==
    response.started =>
        /\ response.checked
        /\ response.avail
        /\ response.outcome = "Ok" => response.n_success = 1
        /\ response.outcome \in TransientCodes => response.n_failure = 1

\* C20: is_available() leaves failure_count, is_open and the failure
\* timestamp as they were, whatever the state and the clock; an open
\* breaker whose recovery window has elapsed answers true and stays marked
\* open, and is_open goes from true to false in record_success() only.
C20_IsAvailablePureRead ==
    /\ [](last_call.op = "is_available" => inner = last_call.pre)
    /\ []((/\ last_call.op = "is_available"
           /\ last_call.pre.is_open
           /\ recovery_elapsed(last_call.pre, last_call.at))
          => last_call.ret /\ inner.is_open)
    /\ [][(inner.is_open /\ ~inner'.is_open)
            => last_call'.op = "record_success"]_vars

\* an open breaker (threshold >= 1, window > 0) has just answered true to
\* is_available() after the clock moved on by the window
C20_Witness ==
    /\ last_call.op = "is_available"
    /\ last_call.ret
    /\ last_call.pre.is_open
    /\ inner.is_open
    /\ inner.threshold >= 1
    /\ inner.recovery_timeout > 0
    /\ last_call.at >= inner.last_failure_ms + inner.recovery_timeout

\* C21: under every interleaving, is_open = true only if failure_count >=
\* threshold has held at some instant so far.
C21_OpenOnlyAfterThreshold == inner.is_open => hist.reached

\* the breaker is marked open while the counter is back under a threshold of
\* two: a record_success() reset it between the fetch_add and the store
C21_Witness ==
    /\ inner.is_open
    /\ inner.threshold = 2
    /\ inner.failure_count < inner.threshold
    /\ hist.reached

\* C22: a record_failure() on an open breaker whose recovery window (> 0)
\* has elapsed leaves it open with the window restarted at that failure:
\* is_available() is false at once, and every is_available() made on the
\* open breaker before a full window has passed since its last failure
\* returns false.
C22_FailedProbeRetraps ==
    /\ [][(/\ streak' = streak + 1
           /\ inner.is_open
           /\ inner.recovery_timeout > 0
           /\ recovery_elapsed(inner, now))
          => /\ inner'.is_open
             /\ inner'.last_failure_ms = now
             /\ ~is_available(inner', now')]_vars
    /\ []((/\ last_call.op = "is_available"
           /\ inner.is_open
           /\ inner.recovery_timeout > 0
           /\ last_call.at < fail_at + inner.recovery_timeout)
          => ~last_call.ret)

\* a breaker with threshold >= 1 tripped, its window passed, one more
\* failure was recorded, and is_available() then answered false
C22_Witness ==
    /\ last_call.op = "is_available"
    /\ ~last_call.ret
    /\ inner.is_open
    /\ inner.threshold >= 1
    /\ inner.recovery_timeout > 0
    /\ streak = inner.threshold + 1
    /\ fail_at >= inner.recovery_timeout
    /\ last_call.at >= fail_at

\* C23: a request cancelled while its downstream call is pending leaves
\* failure_count, is_open and the failure timestamp as they were: neither
\* record_success() nor record_failure() runs for it.
C23_AbandonedCallRecordsNothing ==
    /\ [][(/\ response'.outcome = "abandoned"
           /\ \E p \in Requests : req[p].pc = "calling" /\ req'[p].pc = "idle")
          => inner' = inner]_vars
    /\ [](response.outcome = "abandoned" =>
            response.n_success = 0 /\ response.n_failure = 0)

\* a register whose call was started on a closed breaker with one failure
\* counted, then abandoned, the count still being one
C23_Witness ==
    /\ response.outcome = "abandoned"
    /\ response.op = "register"
    /\ response.started
    /\ ~inner.is_open
    /\ inner.failure_count = 1

\* C24 as stated: while an open breaker's recovery window (> 0) has not
\* elapsed, no step of any request makes is_available() true; only the
\* clock does.
C24_UnavailableUntilWindowEnds ==
    [][(~is_available(inner, now) /\ inner.threshold >= 1 /\ now' = now)
         => ~is_available(inner', now')]_vars

\* C24 as amended: while an open breaker's recovery window (> 0) has not
\* elapsed, is_available() becomes true only by the clock reaching the end
\* of the window or by the Ok arm of a request admitted earlier, whose
\* record_success() closes the breaker at once; requests begun meanwhile
\* are rejected without a call.
C24_UnavailableUntilWindowOrSuccess ==
    /\ [][(~is_available(inner, now) /\ is_available(inner', now'))
            => \/ now' > now /\ inner' = inner
               \/ /\ Responded
                  /\ response'.outcome = "Ok"
                  /\ inner' = record_success(inner)]_vars
    /\ [][(~is_available(inner, now) /\ response' # response
           /\ ~Responded /\ response'.checked /\ response'.op \in Ops
           /\ response'.outcome = "none")
            => ~response'.avail /\ req' = req]_vars

\* a request admitted before the trip has completed with Ok inside the
\* window: the timestamp of the trip is in the future of now - window, and
\* the breaker is closed
C24_Witness ==
    /\ response.outcome = "Ok"
    /\ response.n_success = 1
    /\ ~inner.is_open
    /\ inner.failure_count = 0
    /\ inner.threshold >= 1
    /\ inner.recovery_timeout > 0
    /\ inner.last_failure_ms > 0
    /\ now >= inner.last_failure_ms
    /\ now < inner.last_failure_ms + inner.recovery_timeout

\* C25: an is_available() that read is_open = true while a record_failure()
\* is tripping the breaker (threshold >= 1, window > 0) does not return
\* true unless the window has elapsed since that trip's clock reading: it
\* never compares against the timestamp from before the trip.
C25_ReadsTripTimestamp ==
    [][\A k \in Callers :
         (/\ calls[k].pc = "ia_last"
          /\ calls'[k].pc = "idle"
          /\ calls'[k].ret
          /\ inner.threshold >= 1
          /\ inner.recovery_timeout > 0)
         => \A j \in Callers :
              /\ calls[j].pc # "rf_clock"
              /\ calls[j].pc = "rf_last" =>
                   saturating_sub(calls[k].now_ms, calls[j].now_ms)
                       >= inner.recovery_timeout]_vars

C27_ConcurrentRegisterOneWinner ==
    /\ [](\A u, v \in users : u.email = v.email => u = v)
    /\ [](\A t \in Threads :
            (/\ auth[t].pc = "hashed"
             /\ \E u \in users : u.email = auth[t].user.email)
            => \A reread_ok \in BOOLEAN :
                 LET r == register_create(users, auth[t], TRUE, reread_ok)
                 IN  /\ r.rows = users
                     /\ r.call.result = Err("UserAlreadyExists"))
    /\ [][\A t \in Threads :
            (auth[t].pc = "hashed" /\ auth'[t].pc = "idle") =>
              IF \E u \in users : u.email = auth[t].user.email
              THEN users' = users /\ ~returned'.result.ok
              ELSE returned'.result.ok =>
                     \E u \in users' \ users :
                        /\ users' = users \cup {u}
                        /\ u.email = auth[t].user.email
                        /\ u.id = returned'.result.data.user_id]_vars

\* two Registers for one email both passed the exists check; the second to
\* insert was answered UserAlreadyExists by create
C27_Witness ==
    /\ returned.op = "register"
    /\ returned.create_called
    /\ Reported(FALSE)
    /\ returned.result = Err("UserAlreadyExists")
    /\ \E u \in users :
           /\ u.email = normalized(returned.email)
           /\ u.hashed_password.of # SeedPassword

\* a login is admitted: check_circuit passed and the call is sent
Admitted == \E p \in Requests : LiveBegin(p) /\ req'[p].pc = "calling"

\* C28: with the clock advancing and requests arriving, an unavailable
\* breaker becomes available again and a request is admitted; and when an
\* admitted request's call succeeds the breaker is closed with a failure
\* count of 0.
C28_NotUnavailableForEver ==
    /\ (~is_available(inner, now)) ~> is_available(inner, now)
    /\ []<><<Admitted>>_vars
    /\ [][(Responded /\ response'.outcome = "Ok")
            => (~inner'.is_open /\ inner'.failure_count = 0)]_vars

\* the breaker (threshold >= 1, window > 0) is marked open and available,
\* its window having passed, and every request is in its downstream call:
\* one of them was admitted after the last recorded failure
C28_Witness ==
    /\ inner.is_open
    /\ inner.threshold >= 1
    /\ inner.recovery_timeout > 0
    /\ is_available(inner, now)
    /\ \A p \in Requests : req[p].pc = "calling"

(***************************************************************************)
(* C29                                                                     *)
(***************************************************************************)
\* a Login whose lookup ran and whose password is not the account's: no row
\* has the email, or the row found holds the hash of another password
WrongPasswordLogin ==
    /\ returned.op = "login"
    /\ \/ returned.found = Err("UserNotFound")
       \/ /\ returned.found.ok
          /\ returned.found.data.hashed_password.fmt = "phc"
          /\ returned.found.data.hashed_password.of # returned.password

\* C29 as stated: for any email and any incorrect password Login returns
\* InvalidCredentials, whether the email is unregistered or belongs to a
\* registered account, a deactivated one included.
C29_WrongPasswordNeverTellsAccounts ==
    WrongPasswordLogin => returned.result = Err("InvalidCredentials")

\* C29 as amended: with an incorrect password Login returns
\* InvalidCredentials for an unregistered email and for every active
\* account, which is the result the same command gets on a table holding no
\* row at all; a deactivated account returns AccountInactive, so only the
\* existence of deactivated accounts shows in the error.
C29_WrongPasswordTellsOnlyInactive ==
    WrongPasswordLogin =>
        LET unregistered == login_execute({}, returned.email,
                                          returned.password, now, TRUE, TRUE)
        IN  /\ unregistered.result = Err("InvalidCredentials")
            /\ IF returned.found.ok /\ ~returned.found.data.is_active
               THEN returned.result = Err("AccountInactive")
               ELSE returned.result = unregistered.result

C29_Witness ==
    /\ WrongPasswordLogin
    /\ returned.found.ok
    /\ returned.found.data.is_active
    /\ returned.verify_called
    /\ returned.result = Err("InvalidCredentials")
    /\ \E u \in users : ~u.is_active

(***************************************************************************)
(* C30                                                                     *)
(***************************************************************************)
\* C30: when is_available() reads a clock earlier than the stored failure
\* timestamp, the elapsed time it computes is 0, never a wrapped-around
\* huge value: an open breaker with a recovery window > 0 answers false,
\* and it answers true only if the window is 0.
C30_ClockSteppedBack ==
    ( /\ last_call.op = "is_available"
      /\ last_call.at < last_call.pre.last_failure_ms ) =>
        /\ saturating_sub(last_call.at, last_call.pre.last_failure_ms) = 0
        /\ last_call.pre.is_open =>
               (last_call.ret <=> last_call.pre.recovery_timeout = 0)

\* an open breaker with a window > 0, asked after the clock stepped back to
\* before the trip, has answered false
C30_Witness ==
    /\ last_call.op = "is_available"
    /\ last_call.pre.is_open
    /\ last_call.pre.threshold >= 1
    /\ last_call.pre.recovery_timeout > 0
    /\ last_call.at < last_call.pre.last_failure_ms
    /\ ~last_call.ret

====
